---------------------------- MODULE Spec2Model ----------------------------
(***************************************************************************)
(* fav_say_dragon (src/src/main.rs): the frame renderer create_dragon and  *)
(* the two entry points say and anime that write frames and captions to    *)
(* the terminal.                                                           *)
(*                                                                         *)
(* A string is a sequence of characters; a character is a TLA+ string:     *)
(* an ASCII character stands for itself ("a", " ", "\n"), any other        *)
(* character is named by its code point ("U+FFE3").                        *)
(*                                                                         *)
(* anime's three lists are its arguments; a script file (main.rs:110-120)  *)
(* only supplies the same three lists, and a file that fails to load       *)
(* returns before the first terminal call.                                 *)
(***************************************************************************)
EXTENDS Integers, Sequences, FiniteSets, TLC

VARIABLES
    cmd,             \* the subcommand main dispatches to, or "render"
    side_dish,       \* say's side_dish / the payload handed to create_dragon
    caption,         \* say's caption: Option<&str>
    side_dishes,     \* anime's arguments
    pre_captions,
    after_captions,
    interval_arg,    \* the -i argument as given on the command line, if any
    interval,        \* the parsed interval: u64
    terminal_width,  \* term.size().1
    control_width,   \* columns the linked unicode-width counts for a control character
    empty_dragon,    \* anime's local
    printed_flag,    \* anime's local
    iter,            \* items already taken from the iterator of the running loop
    dragon,          \* the frame being written (say's / anime's local)
    lines,           \* create_dragon's local: the two padded slot strings
    line_i,          \* lines of the frame already written
    pc,              \* the statement to run next
    ret,             \* where clear_dragon returns to
    term,            \* the calls made on the terminal and the clock, in order
    result           \* "running", "ok" or "err": what main returns

vars == <<cmd, side_dish, caption, side_dishes, pre_captions, after_captions,
          interval_arg, interval, terminal_width, control_width, empty_dragon,
          printed_flag, iter, dragon, lines, line_i, pc, ret, term, result>>

-----------------------------------------------------------------------------
(* Bounds of the model *)

MaxLen == 34          \* single-line payloads have 0..MaxLen characters
MaxLines == 3         \* multi-line payloads have 2..MaxLines lines
MaxItems == 2         \* each of anime's three lists has 0..MaxItems items

(* Constants of the program *)

SlotChars == 16
SlotWidth == 20
CaptionWidth == 60
DefaultInterval == 1000
MinInterval == 10

-----------------------------------------------------------------------------
(* Strings *)

Spaces(n) == [i \in 1..n |-> " "]

Marker1 == <<"$", "l", "i", "n", "e", "1", "$">>
Marker2 == <<"$", "l", "i", "n", "e", "2", "$">>

\* East Asian Wide and Fullwidth characters: two columns each.
WideChars ==
    {"U+3001", "U+304F", "U+309D", "U+30CE", "U+30EC", "U+30FC", "U+30FD",
     "U+4E2A", "U+4E59", "U+FF0F", "U+FF1E", "U+FF3F", "U+FF40", "U+FFE3"}

ControlChars == {"\n", "\r"}

\* unicode-width, as console::measure_text_width uses it.  The column count of
\* a control character depends on the unicode-width release that is linked
\* (0 or 1): control_width.
char_width(c) ==
    IF c \in ControlChars THEN control_width
    ELSE IF c \in WideChars THEN 2
    ELSE 1

RECURSIVE width_upto(_, _)
width_upto(s, n) == IF n = 0 THEN 0 ELSE width_upto(s, n - 1) + char_width(s[n])

\* console::measure_text_width (no payload of the model holds an ANSI escape
\* sequence, so strip_ansi_codes changes nothing).
measure_text_width(s) == width_upto(s, Len(s))

\* console::pad_str(s, width, align, None)
pad_str(s, width, align) ==
    LET cols == measure_text_width(s) IN
    IF cols >= width THEN s
    ELSE LET diff == width - cols
             left_pad == CASE align = "Left" -> 0
                           [] align = "Right" -> diff
                           [] align = "Center" -> diff \div 2
         IN  Spaces(left_pad) \o s \o Spaces(diff - left_pad)

SetMin(S) == CHOOSE x \in S : \A y \in S : x <= y

\* str::lines: the lines of s, split at "\n" or "\r\n"; the line ending is
\* not part of a line, and a final line ending starts no further line.
str_lines(s) ==
    LET nl == {i \in 1..Len(s) : s[i] = "\n"}
        starts == {b \in 1..Len(s) : b = 1 \/ (b - 1) \in nl}
        start(k) == CHOOSE b \in starts : Cardinality({c \in starts : c < b}) = k - 1
        line(b) ==
            LET e == SetMin({i \in nl : i >= b} \cup {Len(s) + 1})
                cr == e <= Len(s) /\ e > b /\ s[e - 1] = "\r"
            IN  SubSeq(s, b, IF cr THEN e - 2 ELSE e - 1)
    IN  [k \in 1..Cardinality(starts) |-> line(start(k))]

match_at(s, i, pat) ==
    /\ i + Len(pat) - 1 <= Len(s)
    /\ \A k \in 1..Len(pat) : s[i + k - 1] = pat[k]

\* str::replace: every non-overlapping match of pat, found left to right, is
\* replaced by to; the replacement text is not searched again.
RECURSIVE replace_from(_, _, _, _)
replace_from(s, i, pat, to) ==
    LET found == {j \in i..Len(s) : match_at(s, j, pat)} IN
    IF found = {} THEN SubSeq(s, i, Len(s))
    ELSE LET j == SetMin(found)
         IN  SubSeq(s, i, j - 1) \o to \o replace_from(s, j + Len(pat), pat, to)

replace(s, pat, to) == replace_from(s, 1, pat, to)

-----------------------------------------------------------------------------
(* create_dragon *)

\* The art template, main.rs:218-232.
DragonTemplate ==
    \* main.rs:218
       Spaces(42) \o <<",", ".", " ", "U+FF64", "\n">>
    \* main.rs:219
    \o Spaces(40) \o <<"U+304F", " ", " ", "r", "'", ",", "U+309D", "\n">>
    \* main.rs:220
    \o <<"r", "'", "U+FFE3", "U+FFE3", "U+FFE3", "U+FFE3", "U+FFE3", "U+FFE3", "U+FFE3", "U+FFE3", "U+FFE3", "U+30FD">> \o Spaces(19) \o <<",", "U+309D", "U+FF70", "'", "U+FF64", "\n">>
    \* main.rs:221
    \o <<"|">> \o Spaces(20) \o <<"|">> \o Spaces(10) \o <<"U+FF64">> \o Spaces(6) \o <<"U+FF0F">> \o Spaces(6) \o <<"U+30FD", ".", "\n">>
    \* main.rs:222
    \o <<"|">> \o Spaces(20) \o <<"|">> \o Spaces(8) \o <<"U+304F", "U+3001", "U+FF40", "U+30FD", "/", " ", " ", "U+2229">> \o Spaces(7) \o <<"|", "\n">>
    \* main.rs:223
    \o <<"|">> \o Marker1 \o <<" ", "U+FF1E">> \o Spaces(8) \o <<"U+FF40", "U+FF1E">> \o Spaces(13) \o <<"|", "\n">>
    \* main.rs:224
    \o <<"|">> \o Marker2 \o <<"|">> \o Spaces(9) \o <<"U+304F", "U+00B4", " ", ",", " ", "-", "'", "7">> \o Spaces(9) \o <<"U+30EC", "U+4E2A", "U+30FC", "U+2500", "U+2510", "\n">>
    \* main.rs:225
    \o <<"|">> \o Spaces(20) \o <<"|">> \o Spaces(10) \o <<"U+FF40", "U+00B4", " ", " ", " ", "/", "/", " ", " ", "/">> \o Spaces(6) \o <<"U+30FC", "U+4E2A", "U+30FC", "U+2500", "'", "7", "\n">>
    \* main.rs:226
    \o <<"|">> \o Spaces(20) \o <<"|">> \o Spaces(15) \o <<"/", "/", " ", " ", "/">> \o Spaces(9) \o <<"|">> \o Spaces(4) \o <<"(", "\n">>
    \* main.rs:227
    \o <<"U+309D", "U+FF3F", "U+FF3F", "U+FF3F", "U+FF3F", "U+FF3F", "U+FF3F", "U+FF3F", "U+FF3F", "_", "_", "U+30CE">> \o Spaces(14) \o <<"/", "/", " ", " ", "/", "'", "U+2524">> \o Spaces(6) \o <<"|", "U+30FD", "v", "'", "U+2312", "U+30FD", "U+FF64", "U+309D", "\n">>
    \* main.rs:228
    \o Spaces(35) \o <<"U+304F", "U+FF89", " ", " ", "l", "U+FF70", "U+2524">> \o Spaces(7) \o <<"U+30FD", ".", "\n">>
    \* main.rs:229
    \o Spaces(36) \o <<"U+FF40", "^", "^", "'", "U+FF70", "U+2524">> \o Spaces(10) \o <<"U+25BD", "_", "\n">>
    \* main.rs:230
    \o Spaces(36) \o <<"(", "(">> \o Spaces(4) \o <<")">> \o Spaces(10) \o <<"U+30FD", "U+4E59", "_", "\n">>
    \* main.rs:231
    \o Spaces(36) \o <<"(", "(">> \o Spaces(4) \o <<")", "U+30FD", "U+FF64">> \o Spaces(10) \o <<"U+30FD", "U+30EC", "l", "\n">>
    \* main.rs:232
    \o Spaces(36) \o <<"U+2267", "U+FF3F", "_", "U+309D">> \o Spaces(4) \o <<"U+FF40", "U+FF9E", "U+30FC", "-", "=", "U+FF64", ".", "U+FF3F", "_", ",", "U+309D">>

\* slot_strings with the second window one character too long.
slot_strings_long(payload) ==
    LET len == Len(payload) IN
    IF Len(str_lines(payload)) > 1 THEN <<str_lines(payload)[1], str_lines(payload)[2]>>
    ELSE IF len <= SlotChars THEN <<payload, <<>> >>
    ELSE <<SubSeq(payload, 1, SlotChars),
           SubSeq(payload, SlotChars + 1,
                  IF len <= 2 * SlotChars THEN len ELSE 2 * SlotChars + 1)>>

\* main.rs:192-212: the two slot strings before padding.
slot_strings(payload) ==
    LET n == Len(str_lines(payload)) IN
    IF n = 0 THEN << <<>>, <<>> >>
    ELSE IF n = 1 THEN
        LET len == Len(payload) IN
        IF len <= SlotChars THEN <<payload, <<>> >>
        ELSE IF len <= 2 * SlotChars
            THEN <<SubSeq(payload, 1, SlotChars), SubSeq(payload, SlotChars + 1, len)>>
        ELSE <<SubSeq(payload, 1, SlotChars), SubSeq(payload, SlotChars + 1, 2 * SlotChars)>>
    ELSE
        LET ls == str_lines(payload)
            rev == [k \in 1..Len(ls) |-> ls[Len(ls) + 1 - k]]
            line0 == IF Len(rev) > 0 THEN rev[Len(rev)] ELSE <<>>
            rev1 == IF Len(rev) > 0 THEN SubSeq(rev, 1, Len(rev) - 1) ELSE rev
            line1 == IF Len(rev1) > 0 THEN rev1[Len(rev1)] ELSE <<>>
        IN  <<line0, line1>>

\* main.rs:213-215: the local `lines`.
padded_slots(payload) ==
    LET raw == slot_strings(payload)
    IN  [k \in 1..2 |-> pad_str(raw[k], SlotWidth, "Center")]

\* main.rs:234-236
substitute(slots) ==
    replace(replace(DragonTemplate, Marker1, slots[1]), Marker2, slots[2])

\* main.rs:237-239
pad_lines(text, width) ==
    LET ls == str_lines(text)
    IN  [k \in 1..Len(ls) |-> pad_str(ls[k], width, "Left")]

create_dragon(payload, width) == pad_lines(substitute(padded_slots(payload)), width)

-----------------------------------------------------------------------------
(* Inputs *)

\* Option<T>: None, or Some(x)
None == <<>>
Some(x) == <<x>>

Alphabet ==
    <<"A", "B", "C", "D", "E", "F", "G", "H", "I", "J", "K", "L", "M", "N", "O", "P",
      "Q", "R", "S", "T", "U", "V", "W", "X", "Y", "Z", "a", "b", "c", "d", "f", "g",
      "h", "j", "k", "m", "p", "q", "s", "t">>

\* The first n characters of the alphabet, n <= Len(Alphabet).
Text(n) == SubSeq(Alphabet, 1, n)

LineEndings == {<<"\n">>, <<"\r", "\n">>}

PlainLines == {Text(n) : n \in 0..MaxLen}

SpecialLines ==
    {Marker1, Marker2, <<"x">> \o Marker2 \o <<"y">>, Marker2 \o Marker1}

ShortLines == {<<>>, Text(2), Text(SlotWidth + 1), Marker2}

RECURSIVE Joined(_)
\* Every way to join n lines of ShortLines with line endings.
Joined(n) ==
    IF n = 1 THEN ShortLines
    ELSE {h \o e \o l : h \in Joined(n - 1), e \in LineEndings, l \in ShortLines}

SingleLinePayloads == PlainLines \cup SpecialLines

MultiLinePayloads == UNION {Joined(n) : n \in 2..MaxLines}

Payloads ==
    SingleLinePayloads \cup MultiLinePayloads
    \cup {p \o e : p \in SingleLinePayloads \cup MultiLinePayloads, e \in LineEndings}

TerminalWidths == {0, 80}

ControlWidths == {0, 1}

\* Every sequence of at most n items of S.
Lists(S, n) == UNION {[1..k -> S] : k \in 0..n}

Ready == <<"R", "e", "a", "d", "y">>
Bye == <<"B", "y", "e">>

SayDishes == {<<>>, Text(2), Text(2) \o <<"\n">>, Text(2 * SlotChars + 1)}
SayCaptions == {None, Some(Ready)}

AnimeDishes == {Text(2), <<"A", "\n">>}
AnimePreCaptions == {Ready}
AnimeAfterCaptions == {Bye}
AnimeWidths == {80}
IntervalArgs == {None, Some(MinInterval)}

\* parse_interval with the range's minimum as the default.
parse_interval_min(arg) == IF arg = None THEN MinInterval ELSE arg[1]

\* main.rs:45-50: the interval when -i is not given is default_value_t.
parse_interval(arg) == IF arg = None THEN DefaultInterval ELSE arg[1]

-----
(* The renderer on its own: create_dragon applied to one payload *)

InitRender ==
    /\ cmd = "render"
    /\ side_dish \in Payloads
    /\ terminal_width \in TerminalWidths
    /\ control_width \in ControlWidths
    /\ caption = None
    /\ side_dishes = <<>>
    /\ pre_captions = <<>>
    /\ after_captions = <<>>
    /\ interval_arg = None
    /\ interval = DefaultInterval
    /\ empty_dragon = <<>>
    /\ printed_flag = FALSE
    /\ iter = 0
    /\ dragon = <<>>
    /\ lines = <<>>
    /\ line_i = 0
    /\ pc = "create_dragon"
    /\ ret = "none"
    /\ term = <<>>
    /\ result = "running"

Render ==
    /\ cmd = "render"
    /\ pc = "create_dragon"
    /\ lines' = padded_slots(side_dish)
    /\ dragon' = create_dragon(side_dish, terminal_width)
    /\ pc' = "done"
    /\ result' = "ok"
    /\ UNCHANGED <<cmd, side_dish, caption, side_dishes, pre_captions, after_captions,
                   interval_arg, interval, terminal_width, control_width, empty_dragon,
                   printed_flag, iter, line_i, ret, term>>

NextRender == Render

RenderSpec == InitRender /\ [][NextRender]_vars

-----------------------------------------------------------------------------------------------------------------------------------------------------
(* The program: main dispatching to say or anime *)

\* A call on the terminal or the clock: write_line(line), clear_screen() or
\* sleep(ms), and whether it returned Ok.
Call(op, arg, ok) ==
    [op |-> op,
     line |-> IF op = "write_line" THEN arg ELSE <<>>,
     ms |-> IF op = "sleep" THEN arg ELSE 0,
     ok |-> ok]

\* A call that returned Ok: the statement after it runs next.
Returned(op, arg) == term' = Append(term, Call(op, arg, TRUE))

\* Failed with the error dropped: the run goes on.
Failed_Ignored(op, arg) ==
    /\ term' = Append(term, Call(op, arg, FALSE))
    /\ pc' = pc
    /\ result' = result

\* A terminal call that returned Err: `?` returns it from say / anime and main
\* returns it in turn.
Failed(op, arg) ==
    /\ term' = Append(term, Call(op, arg, FALSE))
    /\ pc' = "done"
    /\ result' = "err"

Init ==
    /\ cmd \in {"say", "anime"}
    /\ control_width \in ControlWidths
    /\ \/ /\ cmd = "say"
          /\ side_dish \in SayDishes
          /\ caption \in SayCaptions
          /\ terminal_width \in TerminalWidths
          /\ side_dishes = <<>>
          /\ pre_captions = <<>>
          /\ after_captions = <<>>
          /\ interval_arg = None
          /\ pc = "say"
       \/ /\ cmd = "anime"
          /\ side_dishes \in Lists(AnimeDishes, MaxItems)
          /\ pre_captions \in Lists(AnimePreCaptions, MaxItems)
          /\ after_captions \in Lists(AnimeAfterCaptions, MaxItems)
          /\ interval_arg \in IntervalArgs
          /\ terminal_width \in AnimeWidths
          /\ side_dish = <<>>
          /\ caption = None
          /\ pc = "anime"
    /\ interval = parse_interval(interval_arg)
    /\ empty_dragon = <<>>
    /\ printed_flag = FALSE
    /\ iter = 0
    /\ dragon = <<>>
    /\ lines = <<>>
    /\ line_i = 0
    /\ ret = "none"
    /\ term = <<>>
    /\ result = "running"

args == <<cmd, side_dish, caption, side_dishes, pre_captions, after_captions,
          interval_arg, interval, terminal_width, control_width>>

\* One pass of a `for line in frame { term.write_line(line)?; }` loop; after
\* the last line the statement `after` runs.
WriteFrameLine(frame, after) ==
    /\ line_i < Len(frame)
    /\ \/ /\ Returned("write_line", frame[line_i + 1])
          /\ line_i' = line_i + 1
          /\ pc' = IF line_i + 1 = Len(frame) THEN after ELSE pc
          /\ result' = result
       \/ /\ Failed("write_line", frame[line_i + 1])
          /\ line_i' = line_i

\* main.rs:90-93
SayCreate ==
    /\ pc = "say"
    /\ dragon' = create_dragon(side_dish, terminal_width)
    /\ lines' = padded_slots(side_dish)
    /\ line_i' = 0
    /\ pc' = "say_lines"
    /\ UNCHANGED <<args, empty_dragon, printed_flag, iter, ret, term, result>>

\* main.rs:94-96
SayLines ==
    /\ pc = "say_lines"
    /\ WriteFrameLine(dragon, "say_caption")
    /\ UNCHANGED <<args, empty_dragon, printed_flag, iter, dragon, lines, ret>>

\* main.rs:97-100
SayCaption ==
    /\ pc = "say_caption"
    /\ LET text == pad_str(IF caption = None THEN <<>> ELSE caption[1], CaptionWidth, "Center")
       IN  \/ /\ Returned("write_line", text)
              /\ pc' = "done"
              /\ result' = "ok"
           \/ Failed("write_line", text)
    /\ UNCHANGED <<args, empty_dragon, printed_flag, iter, dragon, lines, line_i, ret>>

\* main.rs:122-128
AnimeStart ==
    /\ pc = "anime"
    /\ \/ /\ Returned("clear_screen", <<>>)
          /\ empty_dragon' = create_dragon(<<>>, terminal_width)
          /\ pc' = "pre_next"
          /\ result' = result
       \/ /\ Failed("clear_screen", <<>>)
          /\ empty_dragon' = empty_dragon
    /\ printed_flag' = FALSE
    /\ iter' = 0
    /\ UNCHANGED <<args, dragon, lines, line_i, ret>>

\* main.rs:129: pre_captions_iter.next()
PreNext ==
    /\ pc = "pre_next"
    /\ \/ /\ iter < Len(pre_captions)
          /\ iter' = iter + 1
          /\ line_i' = 0
          /\ pc' = "pre_lines"
       \/ /\ iter = Len(pre_captions)
          /\ iter' = 0
          /\ line_i' = line_i
          /\ pc' = "dish_boundary"
    /\ UNCHANGED <<args, empty_dragon, printed_flag, dragon, lines, ret, term, result>>

\* main.rs:130-132
PreLines ==
    /\ pc = "pre_lines"
    /\ WriteFrameLine(empty_dragon, "pre_caption")
    /\ UNCHANGED <<args, empty_dragon, printed_flag, iter, dragon, lines, ret>>

\* PeekThen without the peek: clear_dragon after every item.
PeekThen_Always(list, next) == pc' = "clear_dragon" /\ ret' = next

\* After an item of a loop: clear_dragon when the iterator has a next item
\* (peek().is_some()), then the loop's next pass.
PeekThen(list, next) ==
    IF iter < Len(list)
    THEN pc' = "clear_dragon" /\ ret' = next
    ELSE pc' = next /\ ret' = ret

\* main.rs:133-139
PreCaption ==
    /\ pc = "pre_caption"
    /\ LET text == pad_str(pre_captions[iter], CaptionWidth, "Center")
       IN  \/ /\ Returned("write_line", text)
              /\ printed_flag' = TRUE
              /\ PeekThen(pre_captions, "pre_next")
              /\ result' = result
           \/ /\ Failed("write_line", text)
              /\ UNCHANGED <<printed_flag, ret>>
    /\ UNCHANGED <<args, empty_dragon, iter, dragon, lines, line_i>>

\* main.rs:184: clear_dragon's sleep
ClearDragonSleep ==
    /\ pc = "clear_dragon"
    /\ Returned("sleep", interval)
    /\ pc' = "clear_dragon_clear"
    /\ UNCHANGED <<args, empty_dragon, printed_flag, iter, dragon, lines, line_i, ret, result>>

\* main.rs:185-188: clear_dragon's clear_screen
ClearDragonClear ==
    /\ pc = "clear_dragon_clear"
    /\ \/ /\ Returned("clear_screen", <<>>)
          /\ printed_flag' = FALSE
          /\ pc' = ret
          /\ result' = result
       \/ /\ Failed("clear_screen", <<>>)
          /\ printed_flag' = printed_flag
    /\ UNCHANGED <<args, empty_dragon, iter, dragon, lines, line_i, ret>>

\* BoundaryThen without printed_flag.
BoundaryThen_NoFlag(list, next) ==
    IF Len(list) > 0
    THEN pc' = "clear_dragon" /\ ret' = next
    ELSE pc' = next /\ ret' = ret

\* A clear_dragon between two loops: when something was printed since the last
\* clear and the coming loop has an item.
BoundaryThen(list, next) ==
    IF printed_flag /\ Len(list) > 0
    THEN pc' = "clear_dragon" /\ ret' = next
    ELSE pc' = next /\ ret' = ret

\* main.rs:142-146
DishBoundary ==
    /\ pc = "dish_boundary"
    /\ BoundaryThen(side_dishes, "dish_next")
    /\ UNCHANGED <<args, empty_dragon, printed_flag, iter, dragon, lines, line_i, term, result>>

\* main.rs:148-149: side_dish_iter.next() and create_dragon
DishNext ==
    /\ pc = "dish_next"
    /\ \/ /\ iter < Len(side_dishes)
          /\ iter' = iter + 1
          /\ dragon' = create_dragon(side_dishes[iter + 1], terminal_width)
          /\ lines' = padded_slots(side_dishes[iter + 1])
          /\ line_i' = 0
          /\ pc' = "dish_lines"
       \/ /\ iter = Len(side_dishes)
          /\ iter' = 0
          /\ pc' = "after_boundary"
          /\ UNCHANGED <<dragon, lines, line_i>>
    /\ UNCHANGED <<args, empty_dragon, printed_flag, ret, term, result>>

\* main.rs:150-152
DishLines ==
    /\ pc = "dish_lines"
    /\ WriteFrameLine(dragon, "dish_empty_line")
    /\ UNCHANGED <<args, empty_dragon, printed_flag, iter, dragon, lines, ret>>

\* main.rs:153-159
DishEmptyLine ==
    /\ pc = "dish_empty_line"
    /\ LET text == pad_str(<<>>, CaptionWidth, "Center")
       IN  \/ /\ Returned("write_line", text)
              /\ printed_flag' = TRUE
              /\ PeekThen(side_dishes, "dish_next")
              /\ result' = result
           \/ /\ Failed("write_line", text)
              /\ UNCHANGED <<printed_flag, ret>>
    /\ UNCHANGED <<args, empty_dragon, iter, dragon, lines, line_i>>

\* main.rs:162-166
AfterBoundary ==
    /\ pc = "after_boundary"
    /\ BoundaryThen(after_captions, "after_next")
    /\ UNCHANGED <<args, empty_dragon, printed_flag, iter, dragon, lines, line_i, term, result>>

\* main.rs:168 and, when the iterator is exhausted, 180
AfterNext ==
    /\ pc = "after_next"
    /\ \/ /\ iter < Len(after_captions)
          /\ iter' = iter + 1
          /\ line_i' = 0
          /\ pc' = "after_lines"
          /\ result' = result
       \/ /\ iter = Len(after_captions)
          /\ iter' = iter
          /\ line_i' = line_i
          /\ pc' = "done"
          /\ result' = "ok"
    /\ UNCHANGED <<args, empty_dragon, printed_flag, dragon, lines, ret, term>>

\* main.rs:169-171
AfterLines ==
    /\ pc = "after_lines"
    /\ WriteFrameLine(empty_dragon, "after_caption")
    /\ UNCHANGED <<args, empty_dragon, printed_flag, iter, dragon, lines, ret>>

\* main.rs:172-177
AfterCaption ==
    /\ pc = "after_caption"
    /\ LET text == pad_str(after_captions[iter], CaptionWidth, "Center")
       IN  \/ /\ Returned("write_line", text)
              /\ PeekThen(after_captions, "after_next")
              /\ result' = result
           \/ /\ Failed("write_line", text)
              /\ ret' = ret
    /\ UNCHANGED <<args, empty_dragon, printed_flag, iter, dragon, lines, line_i>>

Next ==
    \/ SayCreate \/ SayLines \/ SayCaption
    \/ AnimeStart
    \/ PreNext \/ PreLines \/ PreCaption
    \/ ClearDragonSleep \/ ClearDragonClear
    \/ DishBoundary \/ DishNext \/ DishLines \/ DishEmptyLine
    \/ AfterBoundary \/ AfterNext \/ AfterLines \/ AfterCaption

Spec == Init /\ [][Next]_vars

-----
(* Claims about create_dragon, checked under RenderSpec *)

Rendered == cmd = "render" /\ pc = "done"

\* The payload is one line at most, as create_dragon counts lines (main.rs:192).
SingleLine(p) == Len(str_lines(p)) <= 1

HasLineBreak(p) == \E i \in 1..Len(p) : p[i] = "\n"

Occurs(c, frame) == \E k \in 1..Len(frame) : \E j \in 1..Len(frame[k]) : frame[k][j] = c

\* padded is raw with spaces added on both sides, as evenly as possible, up to
\* width columns; raw itself when it already fills width columns.
CenterPadded(padded, raw, width) ==
    \E l \in 0..width : \E r \in {l, l + 1} :
        /\ padded = Spaces(l) \o raw \o Spaces(r)
        /\ measure_text_width(padded) = width \/ (l = 0 /\ r = 0)
        /\ measure_text_width(raw) >= width => (l = 0 /\ r = 0)

\* C3: create_dragon returns exactly 15 lines for every payload and every
\* terminal width.
C3_FifteenLines == Rendered => Len(dragon) = 15

\* C4: for a single-line payload of L characters, slot 1 is its characters
\* 1..min(L,16) and slot 2 its characters 17..min(L,32), each center-padded to
\* 20 columns, and no character past position 32 appears in the frame.
C4_CharacterCountSplit ==
    (Rendered /\ SingleLine(side_dish)) =>
        LET L == Len(side_dish)
            slot1 == SubSeq(side_dish, 1, IF L < SlotChars THEN L ELSE SlotChars)
            slot2 == SubSeq(side_dish, SlotChars + 1,
                            IF L < 2 * SlotChars THEN L ELSE 2 * SlotChars)
        IN  /\ CenterPadded(lines[1], slot1, SlotWidth)
            /\ CenterPadded(lines[2], slot2, SlotWidth)
            /\ L = 0 => lines = <<Spaces(SlotWidth), Spaces(SlotWidth)>>
            /\ \A i \in (2 * SlotChars + 1)..L : ~Occurs(side_dish[i], dragon)

C4_Witness ==
    /\ Rendered
    /\ side_dish = Text(2 * SlotChars + 2)
    /\ lines = <<Spaces(2) \o SubSeq(Alphabet, 1, SlotChars) \o Spaces(2),
                 Spaces(2) \o SubSeq(Alphabet, SlotChars + 1, 2 * SlotChars) \o Spaces(2)>>
    /\ Len(dragon) = 15

\* C5: after center-padding, each of the two slot strings is at most 20
\* columns wide, for every payload.
C5_SlotsFit ==
    Rendered => \A k \in 1..2 : measure_text_width(lines[k]) <= SlotWidth

\* C6: for a payload that contains a line break, slot 1 is its first line and
\* slot 2 its second line (empty when there is none), and no line-break
\* character is inside a slot.
C6_LineAware ==
    (Rendered /\ HasLineBreak(side_dish)) =>
        LET ls == str_lines(side_dish)
            second == IF Len(ls) >= 2 THEN ls[2] ELSE <<>>
        IN  /\ CenterPadded(lines[1], ls[1], SlotWidth)
            /\ CenterPadded(lines[2], second, SlotWidth)
            /\ \A k \in 1..2 : \A j \in 1..Len(lines[k]) : lines[k][j] \notin ControlChars

\* The template with slot s1 in place of its $line1$ marker and slot s2 in
\* place of its $line2$ marker.
Spliced(s1, s2) ==
    LET p1 == CHOOSE i \in 1..Len(DragonTemplate) : match_at(DragonTemplate, i, Marker1)
        p2 == CHOOSE i \in 1..Len(DragonTemplate) : match_at(DragonTemplate, i, Marker2)
    IN  SubSeq(DragonTemplate, 1, p1 - 1) \o s1
        \o SubSeq(DragonTemplate, p1 + Len(Marker1), p2 - 1) \o s2
        \o SubSeq(DragonTemplate, p2 + Len(Marker2), Len(DragonTemplate))

\* C10: the frame is the template with the $line1$ marker replaced by padded
\* slot 1 and the $line2$ marker by padded slot 2, then width-padded, whatever
\* the payload contains.
C10_MarkersOnly ==
    Rendered => dragon = pad_lines(Spliced(lines[1], lines[2]), terminal_width)

-----------------------------------------------------------------------------
(* Claims about say and anime, checked under Spec *)

AnimeOk == cmd = "anime" /\ pc = "done" /\ result = "ok"

N == Len(pre_captions)
M == Len(side_dishes)
K == Len(after_captions)

Calls(name) == {i \in 1..Len(term) : term[i].op = name}

\* A sleep directly followed by a clear_screen.
ClearingTransitions ==
    {i \in 2..Len(term) : term[i].op = "clear_screen" /\ term[i - 1].op = "sleep"}

Within(n) == IF n > 0 THEN n - 1 ELSE 0
One(b) == IF b THEN 1 ELSE 0

\* C1: a successful anime run makes exactly max(N-1,0) + [N>0 and M>0] +
\* max(M-1,0) + [(N>0 or M>0) and K>0] + max(K-1,0) clearing transitions, and
\* one more clear_screen, the one at start.
C1_ClearingCount ==
    AnimeOk =>
        /\ Cardinality(ClearingTransitions) =
              Within(N) + One(N > 0 /\ M > 0) + Within(M)
              + One((N > 0 \/ M > 0) /\ K > 0) + Within(K)
        /\ Calls("clear_screen") = {1} \cup ClearingTransitions

C1_Witness ==
    /\ AnimeOk
    /\ N = 2 /\ M = 1 /\ K = 2
    /\ Cardinality(ClearingTransitions) = 4

\* The caption line that ends the block of the last item of the run.
LastCaptionLine ==
    IF K > 0 THEN pad_str(after_captions[K], CaptionWidth, "Center")
    ELSE IF M > 0 THEN Spaces(CaptionWidth)
    ELSE pad_str(pre_captions[N], CaptionWidth, "Center")

\* C2: in a successful anime run that emits an item, the last call is the
\* write of the last line of the last block: no sleep and no clear_screen
\* follows it, and since the last clear_screen only lines were written.
C2_NoTrailingClear ==
    (AnimeOk /\ N + M + K > 0) =>
        LET last == Len(term)
            cleared == CHOOSE i \in Calls("clear_screen") :
                           \A j \in Calls("clear_screen") : j <= i
        IN  /\ term[last] = Call("write_line", LastCaptionLine, TRUE)
            /\ cleared < last
            /\ \A i \in (cleared + 1)..last : term[i].op = "write_line"

C2_Witness ==
    /\ AnimeOk
    /\ N = 1 /\ M = 2 /\ K = 0
    /\ term[Len(term)] = Call("write_line", Spaces(CaptionWidth), TRUE)

\* C7: a write_line or clear_screen that fails is the last call of the run,
\* and the run returns the error; a run returns an error only for that.
C7_FailStops ==
    /\ \A i \in 1..Len(term) :
          ~term[i].ok => (i = Len(term) /\ pc = "done" /\ result = "err")
    /\ result = "err" => (term # <<>> /\ ~term[Len(term)].ok)

C7_Witness ==
    /\ cmd = "anime"
    /\ result = "err"
    /\ Calls("sleep") # {}
    /\ Len(term) > 2
    /\ term[Len(term)].op = "write_line"
    /\ term[Len(term) - 1].op = "write_line"
    /\ ~term[Len(term)].ok

Blocks ==
    LET blank == create_dragon(<<>>, terminal_width)
        captioned(c) == blank \o <<pad_str(c, CaptionWidth, "Center")>>
        payload(d) == create_dragon(d, terminal_width) \o <<Spaces(CaptionWidth)>>
    IN  [k \in 1..N |-> captioned(pre_captions[k])]
        \o [k \in 1..M |-> payload(side_dishes[k])]
        \o [k \in 1..K |-> captioned(after_captions[k])]

RECURSIVE Emitted(_)
\* The calls that write the blocks bs with one sleep and one clear_screen
\* between every two of them.
Emitted(bs) ==
    IF bs = <<>> THEN <<>>
    ELSE [k \in 1..Len(Head(bs)) |-> Call("write_line", Head(bs)[k], TRUE)]
         \o (IF Len(bs) > 1
             THEN <<Call("sleep", interval, TRUE), Call("clear_screen", <<>>, TRUE)>>
             ELSE <<>>)
         \o Emitted(Tail(bs))

\* C9: a successful anime run is one clear_screen, then one 16-line block per
\* item (a frame of 15 lines, then the caption or a blank line padded to 60),
\* with one sleep of the interval and one clear_screen between every two
\* consecutive blocks and nowhere else.
C9_ExactSequence ==
    AnimeOk =>
        /\ term = <<Call("clear_screen", <<>>, TRUE)>> \o Emitted(Blocks)
        /\ \A k \in 1..Len(Blocks) : Len(Blocks[k]) = 16

=============================================================================
